---- MODULE Spec2Model ----
(***************************************************************************)
(* The SAP AI Documentation Assistant UI: the HTTP client                  *)
(* (src/api_client.py), the Chat View (src/app.py) and the Knowledge Base  *)
(* View (src/pages/1_Knowledge_Base.py).                                   *)
(*                                                                         *)
(* Python values are modelled as records with a "kind" field so that None, *)
(* strings and dicts can be compared with each other.  One action is one   *)
(* user event handled to completion: the script run the event triggers,    *)
(* the handler, and the rerun the handler asks for.                        *)
(***************************************************************************)
EXTENDS Integers, Sequences, FiniteSets, TLC

VARIABLES
    history,        \* st.session_state.history
    show_pipeline,  \* st.session_state.show_pipeline
    view,           \* what the last script run of the Chat View left on the page
    net,            \* the client calls made while handling the last event, in order
    ev,             \* the last user event handled
    call,           \* API client exercise: the operation called and the HTTP outcome
    result,         \* API client exercise: what the operation returned or raised
    server,         \* the backend's documentation entries (the source of truth)
    cache,          \* st.cache_data: one slot per cached function and argument
    filter_label,   \* st.session_state.kb_service_filter
    kbView,         \* what the Knowledge Base page shows, its open dialog included
    kbNet,          \* the client calls made while handling the last KB event
    kbEv            \* the last Knowledge Base event handled

chatVars == <<history, show_pipeline, view, net, ev>>
clientVars == <<call, result>>
kbVars == <<server, cache, filter_label, kbView, kbNet, kbEv>>
vars == <<history, show_pipeline, view, net, ev, call, result,
          server, cache, filter_label, kbView, kbNet, kbEv>>

(***************************************************************************)
(* Bounds of the model.                                                    *)
(***************************************************************************)
MaxHistory == 2

(***************************************************************************)
(* Python values.                                                          *)
(***************************************************************************)
None == [kind |-> "None"]
PyStr(text) == [kind |-> "str", text |-> text]
Truthy(v) == v # None /\ (v.kind = "str" => v.text # "")

\* A str whose content is `core` (n characters, not starting or ending with
\* whitespace) between `lead` and `trail` whitespace characters.
Text(core, n, lead, trail) == [core |-> core, n |-> n, lead |-> lead, trail |-> trail]
StrLen(s) == s.lead + s.n + s.trail
StrStrip(s) == [s EXCEPT !.lead = 0, !.trail = 0]

(***************************************************************************)
(* src/config.py                                                           *)
(***************************************************************************)
MAX_QUESTION_LENGTH == 2000

SUGGESTED_QUESTIONS ==
    << Text("How do I deploy a model on SAP AI Core?", 39, 0, 0),
       Text("How does the orchestration service work in Generative AI Hub?", 61, 0, 0),
       Text("What SAP products support Joule as a copilot?", 45, 0, 0),
       Text("How do I store and query vector embeddings in SAP HANA Cloud?", 61, 0, 0) >>

(***************************************************************************)
(* src/api_client.py.  An HTTP outcome is what `requests` does with the    *)
(* single call: it raises ConnectionError, ConnectTimeout (a subclass of   *)
(* both ConnectionError and Timeout), another Timeout, or it returns a     *)
(* response with a status and a JSON body.                                 *)
(***************************************************************************)
ConnectionFailure == [kind |-> "connection_error"]
ConnectTimeout == [kind |-> "connect_timeout"]
ReadTimeout == [kind |-> "timeout"]
Response(status, body) == [kind |-> "response", status |-> status, body |-> body]

\* status_code is <<>> for None and <<code>> for an int.
APIError(message, status_code) ==
    [kind |-> "APIError", message |-> message, status_code |-> status_code]
Returned(value) == [kind |-> "return", value |-> value]

\* resp.raise_for_status() raises HTTPError for a 4xx or 5xx status only.
raise_for_status(status) == 400 <= status /\ status < 600

ConnMsg == "Cannot connect to the API. Is the backend running?"

\* The try/except every client function repeats; the except clauses are
\* tried in order, so a ConnectTimeout is reported as a connection error.
RequestNoCode(o, timeoutMsg, httpPrefix) ==
    IF o.kind \in {"connection_error", "connect_timeout"}
    THEN APIError(ConnMsg, <<>>)
    ELSE IF o.kind = "timeout"
    THEN APIError(timeoutMsg, <<>>)
    ELSE IF raise_for_status(o.status)
    THEN APIError(httpPrefix \o ToString(o.status), <<>>)
    ELSE Returned(o.body)
Request(o, timeoutMsg, httpPrefix) ==
    IF o.kind \in {"connection_error", "connect_timeout"}
    THEN APIError(ConnMsg, <<>>)
    ELSE IF o.kind = "timeout"
    THEN APIError(timeoutMsg, <<>>)
    ELSE IF raise_for_status(o.status)
    THEN APIError(httpPrefix \o ToString(o.status), <<o.status>>)
    ELSE Returned(o.body)

check_health(o) == Request(o, "Health check timed out.", "Health check failed: ")
fetch_services(o) ==
    Request(o, "Service list request timed out.", "Failed to fetch services: ")
fetch_kb_entries(o) ==
    Request(o, "KB entries request timed out.", "Failed to fetch KB entries: ")
create_kb_entry(o) ==
    Request(o, "Create entry request timed out.", "Failed to create entry: ")
update_kb_entry(o) ==
    Request(o, "Update entry request timed out.", "Failed to update entry: ")
delete_kb_entry(o) ==
    Request(o, "Delete entry request timed out.", "Failed to delete entry: ")
\* (the source's message has an em dash where "--" stands here)
ask_question(o) ==
    Request(o,
            "The request timed out. The API may be under heavy load -- please try again.",
            "API error: ")

(***************************************************************************)
(* Success bodies of POST /api/v1/ask.  The backend is expected to answer  *)
(* with an AskResponse; any JSON value can arrive, and resp.json() hands   *)
(* it on unchanged: JSON null becomes None, an object without the          *)
(* AskResponse fields stays such an object.                                *)
(***************************************************************************)
AskResponse(answer, confidence, is_sap_ai, services, pipeline) ==
    [kind |-> "AskResponse", answer |-> answer, confidence |-> confidence,
     is_sap_ai |-> is_sap_ai, services |-> services, pipeline |-> pipeline]
Pipeline == [kind |-> "Pipeline"]
DetailObject == [kind |-> "object"]

\* confidence in percent
AskBodies ==
    { None,
      AskResponse("deploy with a serving template", 82, TRUE, <<"ai_core">>, None),
      AskResponse("deploy with a serving template", 82, TRUE, <<"ai_core">>, Pipeline),
      AskResponse("blocked by the content filter", 0, FALSE, <<>>, None),
      AskResponse("not an SAP AI question", 30, FALSE, <<>>, Pipeline) }

AskOutcomes ==
    {ConnectionFailure, ReadTimeout}
        \cup {Response(200, b) : b \in AskBodies}
        \cup {Response(s, DetailObject) : s \in {304, 500}}

HealthOutcomes ==
    {ConnectionFailure, Response(200, [kind |-> "object", status |-> "healthy"])}

(***************************************************************************)
(* src/app.py: the Chat View.                                              *)
(***************************************************************************)
HistoryEntry(question, response, error) ==
    [question |-> question, response |-> response, error |-> error]

AskCall(question, sp) ==
    [op |-> "ask_question", question |-> question, show_pipeline |-> sp]
HealthCall == [op |-> "check_health"]

\* _handle_question: the history it leaves, whether st.warning was shown in
\* the run in progress, and the client calls it made.
_handle_question_drop_error(h, sp, question, o) ==
    IF StrLen(question) > MAX_QUESTION_LENGTH
    THEN [history |-> h, warning |-> TRUE, calls |-> <<>>]
    ELSE LET r == ask_question(o)
         IN  [history |-> IF r.kind = "return"
                          THEN Append(h, HistoryEntry(question, r.value, None))
                          ELSE h,
              warning |-> FALSE,
              calls |-> <<AskCall(question, sp)>>]
_handle_question_prepend(h, sp, question, o) ==
    IF StrLen(question) > MAX_QUESTION_LENGTH
    THEN [history |-> h, warning |-> TRUE, calls |-> <<>>]
    ELSE LET r == ask_question(o)
         IN  [history |-> IF r.kind = "return"
                          THEN <<HistoryEntry(question, r.value, None)>> \o h
                          ELSE <<HistoryEntry(question, None, PyStr(r.message))>> \o h,
              warning |-> FALSE,
              calls |-> <<AskCall(question, sp)>>]
_handle_question(h, sp, question, o) ==
    IF StrLen(question) > MAX_QUESTION_LENGTH
    THEN [history |-> h, warning |-> TRUE, calls |-> <<>>]
    ELSE LET r == ask_question(o)
         IN  [history |-> IF r.kind = "return"
                          THEN Append(h, HistoryEntry(question, r.value, None))
                          ELSE Append(h, HistoryEntry(question, None, PyStr(r.message))),
              warning |-> FALSE,
              calls |-> <<AskCall(question, sp)>>]

\* The three ways of showing the answer text (st.warning, st.info, the
\* answer-text div), after a test of the confidence alone.
AnswerStyleZeroFirst(is_sap_ai, confidence) ==
    IF confidence = 0 THEN "warning" ELSE IF ~is_sap_ai THEN "info" ELSE "answer"
AnswerStyle(is_sap_ai, confidence) ==
    IF ~is_sap_ai /\ confidence = 0 THEN "warning"
    ELSE IF ~is_sap_ai THEN "info"
    ELSE "answer"

\* _render_answer_card, for an entry it can render.
_render_answer_card(entry, index) ==
    IF Truthy(entry.error)
    THEN [index |-> index, question |-> entry.question, style |-> "error",
          text |-> entry.error.text, pipeline |-> FALSE]
    ELSE LET data == entry.response
         IN  [index |-> index, question |-> entry.question,
              style |-> AnswerStyle(data.is_sap_ai, data.confidence),
              text |-> data.answer,
              pipeline |-> Truthy(data.pipeline)]

\* An entry whose `error` is falsy is read as an AskResponse dict (data.get,
\* data['confidence']): any other response raises AttributeError or KeyError.
Unreadable(entry) == ~Truthy(entry.error) /\ entry.response.kind # "AskResponse"

\* The sidebar's health status (st.success / st.error), after a sidebar that
\* shows a status only when the API answers.
HealthBannerQuiet(r) ==
    IF r.kind = "return" THEN PyStr("API: ok") ELSE None
HealthBanner(r) ==
    IF r.kind = "return" THEN PyStr("API: ok") ELSE PyStr("API offline -- " \o r.message)

\* One run of the script with no widget event pending.  The sidebar comes
\* first: the toggle, New Session, then the export of a non-empty history
\* (_export_markdown reads every entry), then the health check; then the main
\* area and the chat input.  An exception ends the run where it is raised.
ScriptRun(h, sp, ho) ==
    IF \E i \in 1..Len(h) : Unreadable(h[i])
    THEN [view |-> [crashed |-> TRUE, warning |-> FALSE, download |-> FALSE,
                    banner |-> None, starters |-> FALSE, cards |-> <<>>,
                    chat_input |-> FALSE],
          calls |-> <<>>]
    ELSE [view |-> [crashed |-> FALSE, warning |-> FALSE, download |-> h # <<>>,
                    banner |-> HealthBanner(check_health(ho)),
                    starters |-> h = <<>>,
                    cards |-> [i \in 1..Len(h) |-> _render_answer_card(h[i], i - 1)],
                    chat_input |-> TRUE],
          calls |-> <<HealthCall>>]

\* st.rerun(): the run in progress is abandoned with everything it drew, and
\* the script runs again from the top.
st_rerun(h, sp, ho) == ScriptRun(h, sp, ho)

\* The New Session button: st.session_state.history = []
NewSessionHistoryKept(h) == h
NewSessionHistory(h) == <<>>

\* What the user can type into the chat input.
ChatInputs ==
    { Text("hi", 2, 0, 0),
      Text("hi", 2, 1, 1),
      Text("longest", MAX_QUESTION_LENGTH, 0, 0),
      Text("longest", MAX_QUESTION_LENGTH, 0, 1),
      Text("too long", MAX_QUESTION_LENGTH + 1, 0, 0) }

Event(kind, input, question, outcome, before) ==
    [kind |-> kind, input |-> input, question |-> question, outcome |-> outcome,
     before |-> before]

\* The session after the first run of the script.
ChatOpened(ho) ==
    /\ history = <<>>
    /\ show_pipeline = FALSE
    /\ view = ScriptRun(<<>>, FALSE, ho).view
    /\ net = ScriptRun(<<>>, FALSE, ho).calls
    /\ ev = Event("open", None, None, None, 0)

InitChat == \E ho \in HealthOutcomes : ChatOpened(ho)

\* The submission the handler takes: the run the event triggers reaches the
\* handler (the health check of that run has been made), the handler runs,
\* and st.rerun() follows it.
Submit(kind, input, question, o, ho) ==
    LET r == _handle_question(history, show_pipeline, question, o)
        run == st_rerun(r.history, show_pipeline, ho)
    IN  /\ Len(r.history) <= MaxHistory
        /\ history' = r.history
        /\ view' = run.view
        /\ net' = <<HealthCall>> \o r.calls \o run.calls
        /\ ev' = Event(kind, input, question,
                       IF r.calls = <<>> THEN None ELSE o, Len(history))
        /\ UNCHANGED <<show_pipeline, clientVars, kbVars>>

\* A starter button (shown while the history is empty).
ClickStarter ==
    /\ view.starters
    /\ \E col_idx \in 1..Len(SUGGESTED_QUESTIONS), o \in AskOutcomes, ho \in HealthOutcomes :
          Submit("starter", SUGGESTED_QUESTIONS[col_idx],
                 SUGGESTED_QUESTIONS[col_idx], o, ho)

\* The chat input: _handle_question(user_input.strip()); st.rerun()
SubmitChat ==
    /\ view.chat_input
    /\ \E input \in ChatInputs, o \in AskOutcomes, ho \in HealthOutcomes :
          Submit("chat", input, StrStrip(input), o, ho)

\* The New Session button, drawn before anything of the run that can fail.
NewSession ==
    \E ho \in HealthOutcomes :
        LET h == NewSessionHistory(history)
            run == st_rerun(h, show_pipeline, ho)
        IN  /\ history' = h
            /\ view' = run.view
            /\ net' = run.calls
            /\ ev' = Event("new_session", None, None, None, Len(history))
            /\ UNCHANGED <<show_pipeline, clientVars, kbVars>>

\* The pipeline toggle: the run it triggers stores the widget's value.
TogglePipeline ==
    \E ho \in HealthOutcomes :
        LET run == ScriptRun(history, ~show_pipeline, ho)
        IN  /\ show_pipeline' = ~show_pipeline
            /\ view' = run.view
            /\ net' = run.calls
            /\ ev' = Event("toggle", None, None, None, Len(history))
            /\ UNCHANGED <<history, clientVars, kbVars>>

(***************************************************************************)
(* The API client on its own: each operation against each HTTP outcome.    *)
(***************************************************************************)
Statuses == {200, 201, 304, 400, 404, 500, 503}
Bodies == {None, DetailObject}
Outcomes ==
    {ConnectionFailure, ConnectTimeout, ReadTimeout}
        \cup {Response(s, b) : s \in Statuses, b \in Bodies}

InitClient ==
    /\ call = [op |-> "none", outcome |-> None]
    /\ result = None

Call(op, o) == [op |-> op, outcome |-> o]

CallCheckHealth ==
    \E o \in Outcomes :
        /\ call' = Call("check_health", o)
        /\ result' = check_health(o)
        /\ UNCHANGED <<chatVars, kbVars>>
CallFetchServices ==
    \E o \in Outcomes :
        /\ call' = Call("fetch_services", o)
        /\ result' = fetch_services(o)
        /\ UNCHANGED <<chatVars, kbVars>>
CallFetchKbEntries ==
    \E o \in Outcomes :
        /\ call' = Call("fetch_kb_entries", o)
        /\ result' = fetch_kb_entries(o)
        /\ UNCHANGED <<chatVars, kbVars>>
CallCreateKbEntry ==
    \E o \in Outcomes :
        /\ call' = Call("create_kb_entry", o)
        /\ result' = create_kb_entry(o)
        /\ UNCHANGED <<chatVars, kbVars>>
CallUpdateKbEntry ==
    \E o \in Outcomes :
        /\ call' = Call("update_kb_entry", o)
        /\ result' = update_kb_entry(o)
        /\ UNCHANGED <<chatVars, kbVars>>
CallDeleteKbEntry ==
    \E o \in Outcomes :
        /\ call' = Call("delete_kb_entry", o)
        /\ result' = delete_kb_entry(o)
        /\ UNCHANGED <<chatVars, kbVars>>
CallAskQuestion ==
    \E o \in Outcomes :
        /\ call' = Call("ask_question", o)
        /\ result' = ask_question(o)
        /\ UNCHANGED <<chatVars, kbVars>>

(***************************************************************************)
(* src/pages/1_Knowledge_Base.py: the Knowledge Base View.                 *)
(*                                                                         *)
(* The text of a form field or of an entry field is a tuple of characters, *)
(* so that strip, split and join are computed as Python computes them.     *)
(***************************************************************************)
RECURSIVE lstrip(_)
lstrip(s) == IF s # <<>> /\ Head(s) = " " THEN lstrip(Tail(s)) ELSE s

RECURSIVE rstrip(_)
rstrip(s) ==
    IF s # <<>> /\ s[Len(s)] = " " THEN rstrip(SubSeq(s, 1, Len(s) - 1)) ELSE s

\* str.strip()
strip(s) == rstrip(lstrip(s))

\* str.split(sep), sep one character
RECURSIVE split(_, _)
split(s, sep) ==
    IF \A i \in 1..Len(s) : s[i] # sep
    THEN <<s>>
    ELSE LET i == CHOOSE k \in 1..Len(s) :
                      s[k] = sep /\ \A j \in 1..(k - 1) : s[j] # sep
         IN  <<SubSeq(s, 1, i - 1)>> \o split(SubSeq(s, i + 1, Len(s)), sep)

\* sep.join(parts)
RECURSIVE join(_, _)
join(parts, sep) ==
    IF parts = <<>> THEN <<>>
    ELSE IF Len(parts) = 1 THEN parts[1]
    ELSE parts[1] \o sep \o join(Tail(parts), sep)

NonEmpty(t) == t # <<>>

\* [t.strip() for t in tags_raw.split(",") if t.strip()] if tags_raw else []
parse_tags(tags_raw) ==
    IF tags_raw = <<>> THEN <<>>
    ELSE LET parts == split(tags_raw, ",")
         IN  SelectSeq([i \in 1..Len(parts) |-> strip(parts[i])], NonEmpty)

\* src/config.py SERVICE_DISPLAY, in its order
SERVICE_DISPLAY ==
    << [key |-> "ai_core", display_name |-> "SAP AI Core"],
       [key |-> "genai_hub", display_name |-> "Generative AI Hub"],
       [key |-> "ai_launchpad", display_name |-> "SAP AI Launchpad"],
       [key |-> "joule", display_name |-> "SAP Joule"],
       [key |-> "hana_cloud_vector", display_name |-> "SAP HANA Cloud Vector Engine"],
       [key |-> "document_processing", display_name |-> "Document Information Extraction"] >>

\* @st.cache_data(ttl=300)
TTL == 300

(***************************************************************************)
(* The backend behind the client: GET /api/v1/kb/services and the entries  *)
(* resource, as the client's operations document them.                     *)
(***************************************************************************)
KBEntry(id, service_key, title, url, description, tags) ==
    [id |-> id, service_key |-> service_key, title |-> title, url |-> url,
     description |-> description, tags |-> tags]

ServiceList == SubSeq(SERVICE_DISPLAY, 1, 2)

RECURSIVE ById(_)
ById(entries) ==
    IF entries = {} THEN <<>>
    ELSE LET e == CHOOSE x \in entries : \A y \in entries : x.id <= y.id
         IN  <<e>> \o ById(entries \ {e})

\* params = {"service": service} if service else {}
ListEntries(srv, service) ==
    ById({e \in srv : ~Truthy(service) \/ e.service_key = service.text})

MaxEntries == 2

FreeIds(srv) == (1..MaxEntries) \ {e.id : e \in srv}
CreateOnServer(srv, entry) ==
    srv \cup {[f \in DOMAIN entry \cup {"id"} |->
                  IF f = "id" THEN CHOOSE i \in FreeIds(srv) : \A j \in FreeIds(srv) : i <= j
                  ELSE entry[f]]}
UpdateOnServer(srv, doc_id, updates) ==
    {IF e.id = doc_id
     THEN [f \in DOMAIN e |-> IF f \in DOMAIN updates THEN updates[f] ELSE e[f]]
     ELSE e : e \in srv}
DeleteOnServer(srv, doc_id) == {e \in srv : e.id # doc_id}

\* What the network and the backend do with one call: the call goes through
\* (Ok) and the backend answers it, or it fails.
Ok == [kind |-> "ok"]
Faults == {Ok, ConnectionFailure, Response(500, DetailObject)}
Answer(w, body) == IF w = Ok THEN Response(200, body) ELSE w

(***************************************************************************)
(* st.cache_data: a slot holds the value a cached function returned, for   *)
(* which argument, and how long ago.  An exception is not stored.          *)
(***************************************************************************)
\* A cache keyed by the function alone, and the cache as it is: keyed by the
\* function and its arguments.
CacheKeyIgnoringArg(func, arg) == [func |-> func, arg |-> None]
CacheKey(func, arg) == [func |-> func, arg |-> arg]

FilterArgs == {None} \cup {PyStr(ServiceList[i].key) : i \in 1..Len(ServiceList)}
CacheKeys ==
    {CacheKey("_cached_services", None), CacheKey("app._cached_services", None)}
        \cup {CacheKey("_cached_entries", f) : f \in FilterArgs}

Fresh(slot) == slot # None /\ slot.age < TTL

KbCall(op, arg) == [op |-> op, arg |-> arg]

\* A call of a cached function: r is what the wrapped function does if run.
cached(c, func, arg, op, r) ==
    LET key == CacheKey(func, arg)
    IN  IF Fresh(c[key])
        THEN [result |-> Returned(c[key].value), cache |-> c, calls |-> <<>>]
        ELSE [result |-> r,
              cache |-> IF r.kind = "return"
                        THEN [c EXCEPT ![key] = [value |-> r.value, age |-> 0, arg |-> arg]]
                        ELSE c,
              calls |-> <<KbCall(op, arg)>>]

\* A clear that clears nothing, a clear of the entry lists alone, and
\* st.cache_data.clear()
st_cache_data_keep(c) == c
st_cache_data_clear_entries(c) ==
    [k \in DOMAIN c |-> IF k.func = "_cached_entries" THEN None ELSE c[k]]
st_cache_data_clear(c) == [k \in DOMAIN c |-> None]

\* Half a freshness window passes.
Older(c) ==
    [k \in DOMAIN c |->
        IF c[k] = None THEN None
        ELSE [c[k] EXCEPT !.age = IF c[k].age + TTL \div 2 >= TTL THEN TTL
                                  ELSE c[k].age + TTL \div 2]]

(***************************************************************************)
(* One run of the page script: "Load data", the sidebar filter, the entry  *)
(* list.  w1 and w2 decide the two fetches, should they be made.           *)
(***************************************************************************)
AllServices == "All Services"

KeyOfLabel(services, label) ==
    LET i == CHOOSE k \in 1..Len(services) :
                 /\ services[k].display_name = label
                 /\ \A j \in 1..(k - 1) : services[j].display_name # label
    IN  PyStr(services[i].key)

PageRun(c, srv, label, w1, w2) ==
    LET rs == cached(c, "_cached_services", None, "fetch_services",
                     fetch_services(Answer(w1, ServiceList)))
        loaded == rs.result.kind = "return"
        services == IF loaded THEN rs.result.value ELSE <<>>
        services_map == IF loaded THEN services ELSE SERVICE_DISPLAY
        filter_options ==
            <<AllServices>> \o [i \in 1..Len(services) |-> services[i].display_name]
        selected_label ==
            IF \E i \in 1..Len(filter_options) : filter_options[i] = label
            THEN label ELSE AllServices
        selected_service ==
            IF selected_label # AllServices THEN KeyOfLabel(services, selected_label)
            ELSE None
        re == cached(rs.cache, "_cached_entries", selected_service, "fetch_kb_entries",
                     fetch_kb_entries(Answer(w2, ListEntries(srv, selected_service))))
        got == re.result.kind = "return"
    IN  [view |-> [drawn |-> TRUE,
                   services |-> services,
                   services_error |->
                       IF loaded THEN None
                       ELSE PyStr("Failed to load services: " \o rs.result.message),
                   service_keys |-> [i \in 1..Len(services_map) |-> services_map[i].key],
                   filter_options |-> filter_options,
                   selected_service |-> selected_service,
                   entries |-> IF got THEN re.result.value ELSE <<>>,
                   entries_error |->
                       IF got THEN None
                       ELSE PyStr("Failed to load entries: " \o re.result.message),
                   dialog |-> None],
         label |-> selected_label,
         cache |-> re.cache,
         calls |-> rs.calls \o re.calls]

\* _clear_and_rerun
_clear_and_rerun(c, srv, label, w1, w2) ==
    PageRun(st_cache_data_clear(c), srv, label, w1, w2)

(***************************************************************************)
(* The dialogs.                                                            *)
(***************************************************************************)
Dialog(kind, entry, message) == [kind |-> kind, entry |-> entry, message |-> message]
Form(service_key, title, url, description, tags_raw) ==
    [service_key |-> service_key, title |-> title, url |-> url,
     description |-> description, tags_raw |-> tags_raw]

\* The edit dialog as it opens: each field holds the entry's value.
Prefill(entry) ==
    Form(entry.service_key, entry.title, entry.url, entry.description,
         join(entry.tags, <<",", " ">>))

\* Save Changes up to the call: the message shown, or the update to send.
EditFields == {"title", "url", "description", "tags"}
_edit_entry_dialog(entry, form) ==
    LET new == [title |-> strip(form.title), url |-> strip(form.url),
                description |-> strip(form.description),
                tags |-> parse_tags(form.tags_raw)]
        updates == [f \in {g \in EditFields : new[g] # entry[g]} |-> new[f]]
    IN  IF strip(form.title) = <<>>
        THEN [kind |-> "error", message |-> PyStr("Title is required.")]
        ELSE IF DOMAIN updates = {}
        THEN [kind |-> "info", message |-> PyStr("No changes detected.")]
        ELSE [kind |-> "call", doc_id |-> entry.id, updates |-> updates]

\* Create up to the call, after a test of the title as typed (`if not title`).
_add_entry_dialog_untrimmed(form) ==
    IF form.title = <<>>
    THEN [kind |-> "error", message |-> PyStr("Title is required.")]
    ELSE [kind |-> "call",
          entry |-> [service_key |-> form.service_key, title |-> strip(form.title),
                     url |-> strip(form.url), description |-> strip(form.description),
                     tags |-> parse_tags(form.tags_raw)]]

\* Create up to the call.
_add_entry_dialog(form) ==
    IF strip(form.title) = <<>>
    THEN [kind |-> "error", message |-> PyStr("Title is required.")]
    ELSE [kind |-> "call",
          entry |-> [service_key |-> form.service_key, title |-> strip(form.title),
                     url |-> strip(form.url), description |-> strip(form.description),
                     tags |-> parse_tags(form.tags_raw)]]

KbEvent(kind, entry, form, res, invalidated, ran, fresh_before) ==
    [kind |-> kind, entry |-> entry, form |-> form, result |-> res,
     invalidated |-> invalidated, ran |-> ran, fresh_before |-> fresh_before]

\* Whether, as a successful mutation starts, the entry list of the filter shown
\* would still be served from the cache.
ShownListFresh == Fresh(cache[CacheKey("_cached_entries", kbView.selected_service)])

BlankPage ==
    [drawn |-> FALSE, services |-> <<>>, services_error |-> None, service_keys |-> <<>>,
     filter_options |-> <<AllServices>>, selected_service |-> None,
     entries |-> <<>>, entries_error |-> None, dialog |-> None]

\* An entry's Edit or Delete button: the run the click triggers opens the
\* dialog on the entry of that id in the list the run loaded, if it is there.
EntryDialog(kind, id, v) ==
    IF \E i \in 1..Len(v.entries) : v.entries[i].id = id
    THEN Dialog(kind, v.entries[CHOOSE i \in 1..Len(v.entries) : v.entries[i].id = id], None)
    ELSE None

\* The dialog a run opens for the button that triggered it.
NoDialog == [kind |-> "none"]
AddDialog == [kind |-> "add"]
OpenedDialog(button, v) ==
    IF button = NoDialog THEN None
    ELSE IF button = AddDialog THEN Dialog("add", None, None)
    ELSE EntryDialog(button.kind, button.id, v)

\* One run of the page script, triggered by a widget of the page.
Script(kind, label, w1, w2, button) ==
    LET run == PageRun(cache, server, label, w1, w2)
    IN  /\ cache' = run.cache
        /\ filter_label' = run.label
        /\ kbView' = [run.view EXCEPT !.dialog = OpenedDialog(button, run.view)]
        /\ kbNet' = run.calls
        /\ kbEv' = KbEvent(kind, None, None, None, FALSE, TRUE, FALSE)
        /\ UNCHANGED <<server, chatVars, clientVars>>

\* The page is opened (or come back to): the filter widget starts afresh.
OpenPage ==
    /\ kbView.dialog = None
    /\ \E w1 \in Faults, w2 \in Faults : Script("open_page", AllServices, w1, w2, NoDialog)

\* Another option of the sidebar filter is chosen.
SelectFilter ==
    /\ kbView.dialog = None
    /\ \E i \in 1..Len(kbView.filter_options), w1 \in Faults, w2 \in Faults :
          /\ kbView.filter_options[i] # filter_label
          /\ Script("select_filter", kbView.filter_options[i], w1, w2, NoDialog)

\* "+ Add New Entry"
ClickAdd ==
    /\ kbView.drawn
    /\ kbView.dialog = None
    /\ \E w1 \in Faults, w2 \in Faults : Script("click_add", filter_label, w1, w2, AddDialog)

ClickEdit ==
    /\ kbView.dialog = None
    /\ \E i \in 1..Len(kbView.entries), w1 \in Faults, w2 \in Faults :
          Script("click_edit", filter_label, w1, w2,
                 [kind |-> "edit", id |-> kbView.entries[i].id])

ClickDelete ==
    /\ kbView.dialog = None
    /\ \E i \in 1..Len(kbView.entries), w1 \in Faults, w2 \in Faults :
          Script("click_delete", filter_label, w1, w2,
                 [kind |-> "delete", id |-> kbView.entries[i].id])

\* st.error(str(exc)) in a dialog, after an error text of the page's own.
st_error_generic(exc) == PyStr("Request failed.")
st_error(exc) == PyStr(exc.message)

\* A button of an open dialog reruns the dialog only.  What follows the
\* mutation call mc of result r: on success the cache is cleared and the
\* whole page runs again; on APIError the message is shown in the dialog.
AfterCall(kind, form, mc, r, srv, w1, w2) ==
    IF r.kind = "return"
    THEN LET run == _clear_and_rerun(cache, srv, filter_label, w1, w2)
         IN  /\ server' = srv
             /\ cache' = run.cache
             /\ filter_label' = run.label
             /\ kbView' = run.view
             /\ kbNet' = <<mc>> \o run.calls
             /\ kbEv' = KbEvent(kind, kbView.dialog.entry, form, r, TRUE, TRUE,
                                ShownListFresh)
    ELSE /\ kbView' = [kbView EXCEPT !.dialog.message = st_error(r)]
         /\ kbNet' = <<mc>>
         /\ kbEv' = KbEvent(kind, kbView.dialog.entry, form, r, FALSE, FALSE, FALSE)
         /\ UNCHANGED <<server, cache, filter_label>>

Refused(kind, form, message) ==
    /\ kbView' = [kbView EXCEPT !.dialog.message = message]
    /\ kbNet' = <<>>
    /\ kbEv' = KbEvent(kind, kbView.dialog.entry, form, None, FALSE, FALSE, FALSE)
    /\ UNCHANGED <<server, cache, filter_label>>

\* The Create button of the add dialog.
Create(form, w, w1, w2) ==
    LET d == _add_entry_dialog(form)
    IN  /\ IF d.kind # "call"
           THEN Refused("create", form, d.message)
           ELSE /\ FreeIds(server) # {}
                /\ LET srv == IF w = Ok THEN CreateOnServer(server, d.entry) ELSE server
                       r == create_kb_entry(Answer(w, DetailObject))
                   IN  AfterCall("create", form, KbCall("create_kb_entry", d.entry),
                                 r, srv, w1, w2)
        /\ UNCHANGED <<chatVars, clientVars>>

\* The Save Changes button of the edit dialog.
SaveChanges(form, w, w1, w2) ==
    LET entry == kbView.dialog.entry
        d == _edit_entry_dialog(entry, form)
    IN  /\ IF d.kind # "call"
           THEN Refused("save_changes", form, d.message)
           ELSE LET srv == IF w = Ok THEN UpdateOnServer(server, d.doc_id, d.updates)
                           ELSE server
                    r == update_kb_entry(Answer(w, DetailObject))
                IN  AfterCall("save_changes", form,
                              KbCall("update_kb_entry",
                                     [doc_id |-> d.doc_id, updates |-> d.updates]),
                              r, srv, w1, w2)
        /\ UNCHANGED <<chatVars, clientVars>>

\* The Delete button of the confirmation dialog.
ConfirmDelete ==
    /\ kbView.dialog # None
    /\ kbView.dialog.kind = "delete"
    /\ \E w \in Faults, w1 \in Faults, w2 \in Faults :
          LET entry == kbView.dialog.entry
              srv == IF w = Ok THEN DeleteOnServer(server, entry.id) ELSE server
              r == delete_kb_entry(Answer(w, DetailObject))
          IN  AfterCall("confirm_delete", None, KbCall("delete_kb_entry", entry.id),
                        r, srv, w1, w2)
    /\ UNCHANGED <<chatVars, clientVars>>

\* A Cancel button wired as the Delete button is.
CancelDeleteDeleting ==
    /\ kbView.dialog # None
    /\ kbView.dialog.kind = "delete"
    /\ \E w \in Faults, w1 \in Faults, w2 \in Faults :
          LET entry == kbView.dialog.entry
              srv == IF w = Ok THEN DeleteOnServer(server, entry.id) ELSE server
              r == delete_kb_entry(Answer(w, DetailObject))
          IN  AfterCall("cancel_delete", None, KbCall("delete_kb_entry", entry.id),
                        r, srv, w1, w2)
    /\ UNCHANGED <<chatVars, clientVars>>

\* The Cancel button of the confirmation dialog: st.rerun()
CancelDelete ==
    /\ kbView.dialog # None
    /\ kbView.dialog.kind = "delete"
    /\ \E w1 \in Faults, w2 \in Faults :
          Script("cancel_delete", filter_label, w1, w2, NoDialog)

\* A dialog is dismissed: it closes, nothing runs.
DismissDialog ==
    /\ kbView.dialog # None
    /\ kbView' = [kbView EXCEPT !.dialog = None]
    /\ kbNet' = <<>>
    /\ kbEv' = KbEvent("dismiss", kbView.dialog.entry, None, None, FALSE, FALSE, FALSE)
    /\ UNCHANGED <<server, cache, filter_label, chatVars, clientVars>>

\* Time passes.
Tick ==
    /\ \E k \in DOMAIN cache : Fresh(cache[k])
    /\ cache' = Older(cache)
    /\ kbNet' = <<>>
    /\ kbEv' = KbEvent("tick", None, None, None, FALSE, FALSE, FALSE)
    /\ UNCHANGED <<server, filter_label, kbView, chatVars, clientVars>>

(***************************************************************************)
(* What the user types into the dialogs.                                   *)
(***************************************************************************)
TitleA == <<"a">>
TitleB == <<"b">>
Blank == <<" ">>

CreateForms(service_keys) ==
    {Form(service_keys[i], t, <<"u">>, <<>>, <<"t">>) :
        i \in 1..(IF Len(service_keys) < 2 THEN Len(service_keys) ELSE 2),
        t \in {TitleA, Blank}}

EditForms(entry) ==
    {Prefill(entry), [Prefill(entry) EXCEPT !.title = TitleB],
     [Prefill(entry) EXCEPT !.title = Blank]}

SubmitCreate ==
    /\ kbView.dialog # None
    /\ kbView.dialog.kind = "add"
    /\ \E form \in CreateForms(kbView.service_keys),
          w \in Faults, w1 \in Faults, w2 \in Faults :
          Create(form, w, w1, w2)

SubmitEdit ==
    /\ kbView.dialog # None
    /\ kbView.dialog.kind = "edit"
    /\ \E form \in EditForms(kbView.dialog.entry),
          w \in Faults, w1 \in Faults, w2 \in Faults :
          SaveChanges(form, w, w1, w2)

InitialEntries ==
    { KBEntry(1, "ai_core", TitleA, <<"u">>, <<>>, << <<"t">> >>),
      KBEntry(2, "genai_hub", TitleA, <<"u">>, <<>>, << <<"t">> >>) }

InitKB ==
    /\ server = InitialEntries
    /\ cache = [k \in CacheKeys |-> None]
    /\ filter_label = AllServices
    /\ kbView = BlankPage
    /\ kbNet = <<>>
    /\ kbEv = KbEvent("none", None, None, None, FALSE, FALSE, FALSE)

(***************************************************************************)
(* The edit dialog over entries stored in any form, trimmed or not, and    *)
(* every way of filling its fields.                                        *)
(***************************************************************************)
StoredTitles == {<<"a">>, <<" ", "a">>}
StoredUrls == {<<"u">>, <<"u", " ">>}
StoredTags == { <<>>, << <<"t">> >>, << <<"t">>, <<"s">> >>, << <<"t", " ">> >>,
                << <<"t", ",", "s">> >> }

StoredEntries ==
    {KBEntry(1, "ai_core", t, u, <<>>, g) :
        t \in StoredTitles, u \in StoredUrls, g \in StoredTags}

TypedForms(entry) ==
    {Form(entry.service_key, t, u, d, g) :
        t \in {Prefill(entry).title, <<"b">>, <<"b", " ">>, Blank},
        u \in {Prefill(entry).url, <<"v">>},
        d \in {Prefill(entry).description, <<"d">>},
        g \in {Prefill(entry).tags_raw, <<>>, <<"t", ",", " ", "s">>}}

SubmitTypedEdit ==
    /\ kbView.dialog # None
    /\ kbView.dialog.kind = "edit"
    /\ \E form \in TypedForms(kbView.dialog.entry), w \in Faults :
          SaveChanges(form, w, Ok, Ok)

InitEdit ==
    /\ \E e \in StoredEntries : server = {e}
    /\ cache = [k \in CacheKeys |-> None]
    /\ filter_label = AllServices
    /\ kbView = BlankPage
    /\ kbNet = <<>>
    /\ kbEv = KbEvent("none", None, None, None, FALSE, FALSE, FALSE)

(***************************************************************************)
(* src/app.py: the service names of the Chat View.  _cached_services is    *)
(* cached by st.cache_data like the reads of the Knowledge Base page, in   *)
(* the same cache, under its own function.  The Chat View above leaves the *)
(* names of the badges out; here a run reads them.                         *)
(***************************************************************************)
\* dict.get(key, default) on a list of {key, display_name}
Lookup(map, key, default) ==
    IF \E i \in 1..Len(map) : map[i].key = key
    THEN map[CHOOSE i \in 1..Len(map) : map[i].key = key].display_name
    ELSE default

\* The body of _cached_services: the fetched map, or the fallback; and a
\* body that falls back on nothing.
_fetch_names_or_nothing(o) ==
    LET r == fetch_services(o)
    IN  IF r.kind = "return" THEN Returned(r.value) ELSE Returned(<<>>)
_fetch_names(o) ==
    LET r == fetch_services(o)
    IN  IF r.kind = "return" THEN Returned(r.value) ELSE Returned(SERVICE_DISPLAY)

_cached_services(c, o) ==
    cached(c, "app._cached_services", None, "fetch_services", _fetch_names(o))

_service_name(names, key) == Lookup(names, key, Lookup(SERVICE_DISPLAY, key, key))

\* A run asks for the names when it reaches an entry with services: first in
\* the sidebar's export, which stops at an entry it cannot read.
HasBadges(entry) ==
    /\ ~Truthy(entry.error)
    /\ entry.response.kind = "AskResponse"
    /\ entry.response.services # <<>>
NamesNeeded(h) ==
    \E i \in 1..Len(h) : HasBadges(h[i]) /\ \A j \in 1..(i - 1) : ~Unreadable(h[j])

\* One run of the script, names included: so is what the backend does with
\* a list-services call, should the run make one.
NamedRun(h, sp, ho, c, so) ==
    LET run == ScriptRun(h, sp, ho)
        rs == _cached_services(c, so)
    IN  IF NamesNeeded(h)
        THEN [view |-> run.view @@ [names |-> rs.result.value],
              cache |-> rs.cache,
              calls |-> rs.calls \o run.calls]
        ELSE [view |-> run.view @@ [names |-> <<>>], cache |-> c, calls |-> run.calls]

NamedEvent(kind, question, outcome, health, services, before) ==
    Event(kind, question, question, outcome, before)
        @@ [health |-> health, services |-> services]

\* A question is asked: the run the event triggers draws the sidebar, the
\* handler runs, and st.rerun() follows.
AskNamed ==
    /\ view.chat_input
    /\ \E o \in AskOutcomes, ho \in HealthOutcomes, w \in Faults :
          LET so == Answer(w, ServiceList)
              question == SUGGESTED_QUESTIONS[1]
              pre == NamedRun(history, show_pipeline, ho, cache, so)
              r == _handle_question(history, show_pipeline, question, o)
              run == NamedRun(r.history, show_pipeline, ho, pre.cache, so)
          IN  /\ Len(r.history) <= MaxHistory
              /\ history' = r.history
              /\ view' = run.view
              /\ cache' = run.cache
              /\ net' = pre.calls \o r.calls \o run.calls
              /\ ev' = NamedEvent("ask", question, o, ho, so, Len(history))
    /\ UNCHANGED <<show_pipeline, clientVars, server, filter_label, kbView, kbNet, kbEv>>

\* The pipeline toggle, names included.
ToggleNamed ==
    /\ \E ho \in HealthOutcomes, w \in Faults :
          LET so == Answer(w, ServiceList)
              run == NamedRun(history, ~show_pipeline, ho, cache, so)
          IN  /\ show_pipeline' = ~show_pipeline
              /\ view' = run.view
              /\ cache' = run.cache
              /\ net' = run.calls
              /\ ev' = NamedEvent("toggle", None, None, ho, so, Len(history))
    /\ UNCHANGED <<history, clientVars, server, filter_label, kbView, kbNet, kbEv>>

\* The Knowledge Base page clears the cache (_clear_and_rerun there).
CacheCleared ==
    /\ \E k \in DOMAIN cache : cache[k] # None
    /\ cache' = st_cache_data_clear(cache)
    /\ net' = <<>>
    /\ ev' = NamedEvent("cache_cleared", None, None, None, None, Len(history))
    /\ UNCHANGED <<history, show_pipeline, view, clientVars, server, filter_label,
                   kbView, kbNet, kbEv>>

\* Time passes on the Chat View.
TimePasses ==
    /\ \E k \in DOMAIN cache : Fresh(cache[k])
    /\ cache' = Older(cache)
    /\ net' = <<>>
    /\ ev' = NamedEvent("tick", None, None, None, None, Len(history))
    /\ UNCHANGED <<history, show_pipeline, view, clientVars, server, filter_label,
                   kbView, kbNet, kbEv>>

(***************************************************************************)
(* src/app.py: _export_markdown and _render_answer_card as functions of    *)
(* the history.  The document is the list `lines` the function joins.      *)
(***************************************************************************)
\* data.get("links")
Links(data) == IF "links" \in DOMAIN data THEN data.links ELSE <<>>

\* f"{confidence:.0%}", the confidence being held in percent; and the bare
\* number.
PercentTextBare(confidence) == ToString(confidence)
PercentText(confidence) == ToString(confidence) \o "%"

Line(kind, value) == [kind |-> kind, value |-> value]

ExportEntry(i, entry, names) ==
    <<Line("heading", [index |-> i, question |-> entry.question])>> \o
    IF Truthy(entry.error)
    THEN <<Line("error", entry.error.text)>>
    ELSE LET data == entry.response
         IN  (IF data.services # <<>>
              THEN <<Line("services",
                          [k \in 1..Len(data.services) |->
                              _service_name(names, data.services[k])])>>
              ELSE <<>>) \o
             <<Line("confidence", PercentText(data.confidence)),
               Line("answer", data.answer), Line("blank", "")>> \o
             (IF Links(data) # <<>>
              THEN <<Line("links_header", "")>> \o
                   [k \in 1..Len(Links(data)) |-> Line("link", Links(data)[k])] \o
                   <<Line("blank", "")>>
              ELSE <<>>)

RECURSIVE ExportFrom(_, _, _)
ExportFrom(history_, i, names) ==
    IF i > Len(history_) THEN <<>>
    ELSE ExportEntry(i, history_[i], names) \o ExportFrom(history_, i + 1, names)

_export_markdown(history_, names) ==
    <<Line("title", ""), Line("exported", ""), Line("questions", Len(history_)),
      Line("blank", "")>> \o ExportFrom(history_, 1, names)

\* Entries the handler stores for answers of the documented shape and for
\* errors.
DocLink == [title |-> "Serving", url |-> "https://help.sap.com/serving",
            description |-> "Serving templates"]
ShownEntries ==
    {HistoryEntry(SUGGESTED_QUESTIONS[1],
                  AskResponse("the answer", c, b, sv, None) @@ [links |-> ln], None) :
        c \in {0, 82}, b \in BOOLEAN,
        sv \in {<<>>, <<"ai_core", "joule", "custom_service">>},
        ln \in {<<>>, <<DocLink>>}}
      \cup {HistoryEntry(SUGGESTED_QUESTIONS[2], None, PyStr("API error: 500"))}

ShownHistories == UNION {[1..n -> ShownEntries] : n \in 1..MaxHistory}

InitShown ==
    /\ history \in ShownHistories
    /\ show_pipeline = FALSE
    /\ view = [kind |-> "none"]
    /\ net = <<>>
    /\ ev = Event("open", None, None, None, 0)
    /\ InitClient
    /\ InitKB

\* The sidebar's export of the history, with the names a run has.
Export ==
    /\ \E names \in {SERVICE_DISPLAY, ServiceList} :
          view' = [kind |-> "document", names |-> names,
                   lines |-> _export_markdown(history, names)]
    /\ ev' = Event("export", None, None, None, Len(history))
    /\ UNCHANGED <<history, show_pipeline, net, clientVars, kbVars>>

\* The main area's cards.
RenderCards ==
    /\ view' = [kind |-> "cards",
                cards |-> [i \in 1..Len(history) |-> _render_answer_card(history[i], i - 1)]]
    /\ ev' = Event("render", None, None, None, Len(history))
    /\ UNCHANGED <<history, show_pipeline, net, clientVars, kbVars>>

(***************************************************************************)
(* Specifications.                                                         *)
(***************************************************************************)
\* The Chat View.
Init == InitChat /\ InitClient /\ InitKB
Next == ClickStarter \/ SubmitChat \/ NewSession \/ TogglePipeline
Spec == Init /\ [][Next]_vars

\* The other specifications leave the Chat View as it first opened.
ChatAside == ChatOpened(ConnectionFailure)

\* The API client: each operation against each outcome of its HTTP call.
InitClientOnly == ChatAside /\ InitClient /\ InitKB
NextClient ==
    \/ CallCheckHealth \/ CallFetchServices \/ CallFetchKbEntries
    \/ CallCreateKbEntry \/ CallUpdateKbEntry \/ CallDeleteKbEntry
    \/ CallAskQuestion
SpecClient == InitClientOnly /\ [][NextClient]_vars

\* The Knowledge Base View within one freshness window: every event of the
\* page and of its three dialogs.
InitKBOnly == ChatAside /\ InitClient /\ InitKB
NextKB ==
    \/ OpenPage \/ SelectFilter \/ ClickAdd \/ ClickEdit \/ ClickDelete
    \/ SubmitCreate \/ SubmitEdit \/ ConfirmDelete \/ CancelDelete
    \/ DismissDialog
SpecKB == InitKBOnly /\ [][NextKB]_vars

\* The Knowledge Base View's reads over time: the page, the filter, the
\* delete dialog, and time passing.
InitKBTime == ChatAside /\ InitClient /\ InitKB
NextKBTime ==
    \/ OpenPage \/ SelectFilter \/ ClickDelete \/ ConfirmDelete \/ CancelDelete
    \/ DismissDialog \/ Tick
SpecKBTime == InitKBTime /\ [][NextKBTime]_vars

\* The service names of the Chat View over time.
InitNames == ChatAside /\ InitClient /\ InitKB
NextNames == AskNamed \/ ToggleNamed \/ CacheCleared \/ TimePasses
SpecNames == InitNames /\ [][NextNames]_vars

\* Both pages of one session: a session that stays on the Chat View, or one
\* that goes to the Knowledge Base page at once and stays there.
OnChatView == ~kbView.drawn /\ (AskNamed \/ ToggleNamed)
OnKnowledgeBase == ev.kind = "open" /\ NextKB
InitUI == ChatAside /\ InitClient /\ InitKB
NextUI == OnChatView \/ OnKnowledgeBase
SpecUI == InitUI /\ [][NextUI]_vars

\* The export and the cards as functions of the history.
NextShown == Export \/ RenderCards
SpecShown == InitShown /\ [][NextShown]_vars

\* The edit dialog over stored entries and typed forms of every shape.
InitEditOnly == ChatAside /\ InitClient /\ InitEdit
NextEdit == OpenPage \/ ClickEdit \/ SubmitTypedEdit \/ DismissDialog
SpecEdit == InitEditOnly /\ [][NextEdit]_vars

(***************************************************************************)
(* Chat View properties (specification Spec).                              *)
(***************************************************************************)
Submitted(e) == e.kind \in {"starter", "chat"}
Accepted(e) == Submitted(e) /\ StrLen(e.question) <= MAX_QUESTION_LENGTH
Oversized(e) == Submitted(e) /\ StrLen(e.question) > MAX_QUESTION_LENGTH
AskIssued(calls) == \E i \in 1..Len(calls) : calls[i].op = "ask_question"
IsPrefix(s, t) == Len(s) <= Len(t) /\ \A i \in 1..Len(s) : s[i] = t[i]

\* C1: every entry of the chat history has exactly one of `response` and
\* `error` populated, never both and never neither, whatever submissions,
\* ask-question outcomes and resets produced the history.
C1_ExactlyOnePopulated ==
    \A i \in 1..Len(history) :
        (history[i].response # None) # (history[i].error # None)

\* C2: a submission whose question is longer than the maximum issues no
\* ask-question call, leaves the history unchanged, and leaves the view
\* showing the length warning once the submission has been handled.
C2_OversizedLeavesWarning ==
    [][Oversized(ev') =>
          /\ ~AskIssued(net')
          /\ history' = history
          /\ view'.warning]_vars

\* C3: an accepted submission whose ask-question call fails with an APIError
\* appends exactly one entry, with `error` the error's message and `response`
\* None; the entries already there do not change.
C3_ApiErrorAppendsOneErrorEntry ==
    [][(Accepted(ev') /\ ask_question(ev'.outcome).kind = "APIError") =>
          history' = Append(history,
                            HistoryEntry(ev'.question, None,
                                         PyStr(ask_question(ev'.outcome).message)))]_vars

C3_Witness ==
    /\ ev.kind = "chat"
    /\ ev.outcome = Response(500, DetailObject)
    /\ Len(history) = 2
    /\ history[1].error = None
    /\ history[2] = HistoryEntry(ev.question, None, PyStr("API error: 500"))

\* C4: between two resets the history is append-only (an accepted submission
\* adds its entry at the end, no entry already there is modified, removed or
\* reordered), and the cards of the page are the entries of the history in
\* submission order, oldest first.
CardsInHistoryOrder ==
    ~view.crashed =>
        /\ Len(view.cards) = Len(history)
        /\ \A i \in 1..Len(history) :
              /\ view.cards[i].index = i - 1
              /\ view.cards[i].question = history[i].question

C4_AppendOnlyOldestFirst ==
    /\ []CardsInHistoryOrder
    /\ [][ev'.kind # "new_session" =>
             /\ IsPrefix(history, history')
             /\ Len(history') <= Len(history) + 1
             /\ Accepted(ev') =>
                   /\ Len(history') = Len(history) + 1
                   /\ history'[Len(history')].question = ev'.question]_vars

C4_Witness ==
    /\ ev.kind = "chat"
    /\ ev.before = 1
    /\ Len(history) = 2
    /\ history[1].question # history[2].question
    /\ ~view.crashed
    /\ Len(view.cards) = 2

\* C5: New Session can be pressed in every state; it empties the history at
\* once with no ask-question call, the page it leaves is the empty state with
\* the starter questions, and the toggle preference is unchanged; the starter
\* questions are on the page if and only if the history is empty.
StartersIffEmpty == view.starters <=> history = <<>>

C5_NewSessionEmptiesHistory ==
    /\ []StartersIffEmpty
    /\ [](ENABLED NewSession)
    /\ [][ev'.kind = "new_session" =>
             /\ history' = <<>>
             /\ ~AskIssued(net')
             /\ view'.starters
             /\ view'.cards = <<>>
             /\ ~view'.crashed
             /\ show_pipeline' = show_pipeline]_vars

C5_Witness ==
    /\ ev.kind = "new_session"
    /\ ev.before = MaxHistory
    /\ history = <<>>
    /\ view.starters
    /\ show_pipeline

(***************************************************************************)
(* API client properties (specification SpecClient).                       *)
(***************************************************************************)
NoResponse(o) == o.kind \in {"connection_error", "connect_timeout", "timeout"}
Non2xx(o) == o.kind = "response" /\ ~(200 <= o.status /\ o.status <= 299)
Is4xx5xx(o) == o.kind = "response" /\ 400 <= o.status /\ o.status <= 599

ReportedAsAPIError(o, r) ==
    /\ r.kind = "APIError"
    /\ r.status_code # <<>> <=> o.kind = "response"
    /\ o.kind = "response" => r.status_code = <<o.status>>

UpdateCalls(calls) == {i \in 1..Len(calls) : calls[i].op = "update_kb_entry"}
Normalized(form) ==
    [title |-> strip(form.title), url |-> strip(form.url),
     description |-> strip(form.description), tags |-> parse_tags(form.tags_raw)]

\* C7: Save Changes on a form in which no field differs from the original
\* entry never calls the update operation and is reported to the user as a
\* no-op, whatever form the entry's stored fields are in.
C7_UnchangedEditNeverUpdates ==
    (kbEv.kind = "save_changes" /\ kbEv.form = Prefill(kbEv.entry)) =>
        /\ UpdateCalls(kbNet) = {}
        /\ kbView.dialog # None
        /\ kbView.dialog.message = PyStr("No changes detected.")

\* C8: the payload of an update call holds exactly the fields whose normalized
\* value differs from the original entry's, each with its new value, and no
\* field the user left unchanged; editing only the title sends {title: new}.
C8_PayloadIsExactlyTheChangedFields ==
    (kbEv.kind = "save_changes" /\ UpdateCalls(kbNet) # {}) =>
        LET p == kbNet[CHOOSE i \in UpdateCalls(kbNet) : TRUE].arg.updates
            new == Normalized(kbEv.form)
            old == Normalized(Prefill(kbEv.entry))
        IN  /\ \A f \in DOMAIN p : p[f] = new[f]
            /\ DOMAIN p = {f \in EditFields : new[f] # old[f]}
            /\ \A f \in EditFields \ {"tags"} :
                  kbEv.form[f] = Prefill(kbEv.entry)[f] => f \notin DOMAIN p
            /\ kbEv.form.tags_raw = Prefill(kbEv.entry).tags_raw => "tags" \notin DOMAIN p
            /\ kbEv.form = [Prefill(kbEv.entry) EXCEPT !.title = kbEv.form.title]
                  => DOMAIN p = {"title"} /\ p["title"] = strip(kbEv.form.title)

(***************************************************************************)
(* Read cache properties (specification SpecKBTime).                       *)
(***************************************************************************)
Fetches(calls, op) == {i \in 1..Len(calls) : calls[i].op = op}

\* C9: after a delete call succeeds, the deleted entry is not in the next
\* entry list on the page, even if the cached list was still fresh: the list
\* read that follows the delete goes to the backend, and no list the page
\* shows afterwards holds an entry that is gone from the backend.
NothingDeletedIsShown ==
    \A i \in 1..Len(kbView.entries) : kbView.entries[i] \in server

C9_DeletedEntryNotShown ==
    /\ []NothingDeletedIsShown
    /\ [][(kbEv'.kind = "confirm_delete" /\ kbEv'.result.kind = "return") =>
             /\ \A i \in 1..Len(kbView'.entries) :
                   kbView'.entries[i].id # kbEv'.entry.id
             /\ \E i \in Fetches(kbNet', "fetch_kb_entries") :
                   kbNet'[i].arg = kbView'.selected_service
             /\ kbView'.dialog = None]_vars

C9_Witness ==
    /\ kbEv.kind = "confirm_delete"
    /\ kbEv.result.kind = "return"
    /\ kbEv.fresh_before
    /\ kbView.entries_error = None
    /\ kbView.entries # <<>>

\* C10: a read of the entry list for filter f is served from the cache only if
\* the slot of f holds a result fetched for f less than TTL seconds ago and
\* not invalidated since, and then it is that result; otherwise the backend is
\* called, for f.  The same holds of the service list.  No slot ever holds a
\* result fetched for another argument.
SlotsHoldTheirArgument ==
    \A k \in DOMAIN cache : cache[k] # None => cache[k].arg = k.arg

C10_CachedPerFilterForTTL ==
    /\ []SlotsHoldTheirArgument
    /\ [][kbEv'.ran =>
             LET f == kbView'.selected_service
                 slot == cache[CacheKey("_cached_entries", f)]
                 reusable == /\ ~kbEv'.invalidated
                             /\ slot # None
                             /\ slot.arg = f
                             /\ slot.age < 5 * 60
                 fetched == Fetches(kbNet', "fetch_kb_entries")
                 svc == cache[CacheKey("_cached_services", None)]
                 svcReusable == ~kbEv'.invalidated /\ svc # None /\ svc.age < 5 * 60
             IN  /\ (fetched = {}) <=> reusable
                 /\ reusable => kbView'.entries = slot.value
                 /\ \A i \in fetched : kbNet'[i].arg = f
                 /\ Cardinality(fetched) <= 1
                 /\ (Fetches(kbNet', "fetch_services") = {}) <=> svcReusable]_vars

C10_Witness ==
    /\ kbEv.ran
    /\ Fetches(kbNet, "fetch_kb_entries") = {}
    /\ kbView.selected_service # None
    /\ kbView.entries # <<>>
    /\ cache[CacheKey("_cached_entries", kbView.selected_service)].age = TTL \div 2
    /\ cache[CacheKey("_cached_entries", None)] # None

(***************************************************************************)
(* Mutation properties (specification SpecKB).                             *)
(***************************************************************************)
Mutations == {"create", "save_changes", "confirm_delete"}
MutationCalls == {"create_kb_entry", "update_kb_entry", "delete_kb_entry"}
Succeeded(e) == e.kind \in Mutations /\ e.result.kind = "return"
Failed(e) == e.kind \in Mutations /\ e.result.kind = "APIError"
FetchOf(func) == IF func = "_cached_entries" THEN "fetch_kb_entries" ELSE "fetch_services"

\* C11: a successful create, update or delete empties the whole read cache
\* before the page reloads: after the step every slot is empty or was filled
\* by a backend call of the reload, the reload itself reads the service list
\* and the shown entry list from the backend, and so no cached entry list
\* ever differs from what the backend holds for its filter.
CacheAgreesWithBackend ==
    \A k \in DOMAIN cache :
        (k.func = "_cached_entries" /\ cache[k] # None)
            => cache[k].value = ListEntries(server, k.arg)

C11_MutationInvalidatesWholeCache ==
    /\ []CacheAgreesWithBackend
    /\ [][Succeeded(kbEv') =>
             /\ kbEv'.invalidated
             /\ \A k \in DOMAIN cache' :
                   cache'[k] # None =>
                       \E i \in 1..Len(kbNet') : kbNet'[i] = KbCall(FetchOf(k.func), k.arg)
             /\ Fetches(kbNet', "fetch_services") # {}
             /\ \E i \in Fetches(kbNet', "fetch_kb_entries") :
                   kbNet'[i].arg = kbView'.selected_service
             /\ kbNet'[1].op \in MutationCalls]_vars

C11_Witness ==
    /\ Succeeded(kbEv)
    /\ kbEv.kind = "create"
    /\ kbEv.fresh_before
    /\ kbView.selected_service # None
    /\ kbView.services_error = None
    /\ cache[CacheKey("_cached_entries", None)] = None
    /\ cache[CacheKey("_cached_entries", kbView.selected_service)] # None

\* C12: when a create, update or delete call fails with an APIError, the
\* client's message is shown in the dialog as it is, the dialog stays open,
\* nothing else of the page changes, the cache is left as it was, and no
\* reload happens: the failed call is the only call of the event.
C12_FailedMutationLeavesPriorState ==
    [][Failed(kbEv') =>
          /\ kbView.dialog # None
          /\ kbView' = [kbView EXCEPT !.dialog.message = PyStr(kbEv'.result.message)]
          /\ kbView'.dialog.kind = kbView.dialog.kind
          /\ cache' = cache
          /\ filter_label' = filter_label
          /\ ~kbEv'.invalidated
          /\ ~kbEv'.ran
          /\ Len(kbNet') = 1
          /\ kbNet'[1].op \in MutationCalls]_vars

C12_Witness ==
    /\ Failed(kbEv)
    /\ kbEv.kind = "save_changes"
    /\ kbEv.result.status_code = <<500>>
    /\ kbView.dialog # None
    /\ kbView.dialog.message = PyStr("Failed to update entry: 500")
    /\ \E k \in DOMAIN cache : cache[k] # None

(***************************************************************************)
(* Chat View rendering properties (specification Spec).                    *)
(***************************************************************************)
\* C13: a card shows the pipeline breakdown only if its entry's response has
\* a pipeline payload and the detail toggle is on as the page is drawn; with
\* the toggle off no card shows it.
C13_BreakdownOnlyWithToggleOn ==
    \A i \in 1..Len(view.cards) :
        view.cards[i].pipeline =>
            /\ show_pipeline
            /\ history[i].response # None
            /\ history[i].response.pipeline # None

(***************************************************************************)
(* Chat View service names (specification SpecNames).                      *)
(***************************************************************************)
NamesKey == CacheKey("app._cached_services", None)
ChatRan(e) == e.kind \in {"ask", "toggle"}
FallbackFresh(c) ==
    c[NamesKey] # None /\ c[NamesKey].value = SERVICE_DISPLAY /\ c[NamesKey].age < 5 * 60

\* C20: when the Chat View's list-services call fails, the static fallback
\* map is what the cache stores; while that slot is less than TTL seconds old
\* and the cache has not been cleared, a run of the Chat View makes no
\* list-services call and takes the names from the fallback, whatever the
\* backend would answer by then.
C20_FallbackIsCached ==
    [][ChatRan(ev') =>
          /\ (Fetches(net', "fetch_services") # {} /\ ev'.services.kind # "response")
                => /\ cache'[NamesKey] = [value |-> SERVICE_DISPLAY, age |-> 0, arg |-> None]
                   /\ view'.names = SERVICE_DISPLAY
          /\ FallbackFresh(cache)
                => /\ Fetches(net', "fetch_services") = {}
                   /\ cache'[NamesKey] = cache[NamesKey]
                   /\ (NamesNeeded(history') => view'.names = SERVICE_DISPLAY)
          /\ (cache[NamesKey] = None /\ NamesNeeded(history'))
                => Fetches(net', "fetch_services") # {}]_vars

C20_Witness ==
    /\ ev.kind = "toggle"
    /\ view.cards # <<>>
    /\ ev.services = Response(200, ServiceList)
    /\ Fetches(net, "fetch_services") = {}
    /\ view.names = SERVICE_DISPLAY
    /\ cache[NamesKey] # None
    /\ cache[NamesKey].value = SERVICE_DISPLAY
    /\ cache[NamesKey].age = TTL \div 2

(***************************************************************************)
(* Cards and export (specification SpecShown).                             *)
(***************************************************************************)
Successful(entry) == ~Truthy(entry.error) /\ entry.response # None

\* C16: the card of a successful entry is in exactly one of three answer
\* states, decided by (is_sap_ai, confidence) alone: warning iff is_sap_ai is
\* false and the confidence is 0, informational iff is_sap_ai is false and
\* the confidence is above 0, normal answer iff is_sap_ai is true.
C16_ThreeAnswerStates ==
    view.kind = "cards" =>
        /\ Len(view.cards) = Len(history)
        /\ \A i \in 1..Len(history) :
              Successful(history[i]) =>
                  LET d == history[i].response
                      st == view.cards[i].style
                  IN  /\ st \in {"warning", "info", "answer"}
                      /\ st = "warning" <=> (~d.is_sap_ai /\ d.confidence = 0)
                      /\ st = "info" <=> (~d.is_sap_ai /\ d.confidence > 0)
                      /\ st = "answer" <=> d.is_sap_ai
                      /\ view.cards[i].text = d.answer

C16_Witness ==
    /\ view.kind = "cards"
    /\ Len(history) = 2
    /\ Successful(history[1]) /\ Successful(history[2])
    /\ history[1].response.is_sap_ai /\ history[1].response.confidence = 0
    /\ view.cards[1].style = "answer"
    /\ ~history[2].response.is_sap_ai /\ history[2].response.confidence = 0
    /\ view.cards[2].style = "warning"

\* The document's question sections: a section starts at a heading line and
\* runs to the next heading or the end.
HeadingLines(doc) == {i \in 1..Len(doc) : doc[i].kind = "heading"}
NthHeading(doc, k) ==
    CHOOSE i \in HeadingLines(doc) : Cardinality({j \in HeadingLines(doc) : j <= i}) = k
SectionOf(doc, k) ==
    LET from == NthHeading(doc, k)
        later == {j \in HeadingLines(doc) : j > from} \cup {Len(doc) + 1}
        to == CHOOSE j \in later : \A x \in later : j <= x
    IN  SubSeq(doc, from + 1, to - 1)
OfKind(lines, kind) == SelectSeq(lines, LAMBDA l : l.kind = kind)

\* C17: the exported document of a history has one question section per
\* entry, in history order, and a question count equal to the history's
\* length; the section of a successful entry shows its confidence in percent
\* with its services, answer and links, the section of an error entry shows
\* its error line and nothing else.
C17_ExportOneSectionPerEntry ==
    view.kind = "document" =>
        LET doc == view.lines
        IN  /\ Cardinality(HeadingLines(doc)) = Len(history)
            /\ OfKind(doc, "questions") = <<Line("questions", Len(history))>>
            /\ \A k \in 1..Len(history) :
                  LET e == history[k]
                      sec == SectionOf(doc, k)
                  IN  /\ doc[NthHeading(doc, k)].value =
                            [index |-> k, question |-> e.question]
                      /\ IF Truthy(e.error)
                         THEN sec = <<Line("error", e.error.text)>>
                         ELSE LET d == e.response
                              IN  /\ OfKind(sec, "error") = <<>>
                                  /\ OfKind(sec, "confidence") =
                                        <<Line("confidence", ToString(d.confidence) \o "%")>>
                                  /\ OfKind(sec, "answer") = <<Line("answer", d.answer)>>
                                  /\ OfKind(sec, "services") =
                                        IF d.services = <<>> THEN <<>>
                                        ELSE <<Line("services",
                                                    [j \in 1..Len(d.services) |->
                                                        _service_name(view.names,
                                                                      d.services[j])])>>
                                  /\ OfKind(sec, "link") =
                                        [j \in 1..Len(Links(d)) |-> Line("link", Links(d)[j])]

C17_Witness ==
    /\ view.kind = "document"
    /\ Len(history) = 2
    /\ Successful(history[1])
    /\ history[1].response.confidence = 82
    /\ history[1].response.services # <<>>
    /\ Links(history[1].response) # <<>>
    /\ Truthy(history[2].error)
    /\ OfKind(SectionOf(view.lines, 1), "confidence") = <<Line("confidence", "82%")>>
    /\ SectionOf(view.lines, 2) = <<Line("error", "API error: 500")>>

(***************************************************************************)
(* Dialog properties (specification SpecKB).                               *)
(***************************************************************************)
DeleteCalls(calls) == {i \in 1..Len(calls) : calls[i].op = "delete_kb_entry"}

\* C18: a delete call is made only by the confirm button of the confirmation
\* dialog, for the entry that dialog was opened on; the dialog opens only by
\* an entry's Delete button; opening, cancelling and dismissing the dialog
\* make no delete call; one confirmation makes one delete call.
C18_DeleteOnlyOnConfirm ==
    /\ [][DeleteCalls(kbNet') # {} =>
             /\ kbEv'.kind = "confirm_delete"
             /\ kbView.dialog # None
             /\ kbView.dialog.kind = "delete"
             /\ Cardinality(DeleteCalls(kbNet')) = 1
             /\ \A i \in DeleteCalls(kbNet') : kbNet'[i].arg = kbView.dialog.entry.id]_vars
    /\ [][kbEv'.kind = "confirm_delete" => Cardinality(DeleteCalls(kbNet')) = 1]_vars
    /\ [][kbEv'.kind \in {"click_delete", "cancel_delete", "dismiss"}
             => DeleteCalls(kbNet') = {}]_vars
    /\ [][(kbView'.dialog # None /\ kbView'.dialog.kind = "delete" /\ kbView.dialog = None)
             => /\ kbEv'.kind = "click_delete"
                /\ \E i \in 1..Len(kbView.entries) :
                      kbView.entries[i].id = kbView'.dialog.entry.id]_vars

C18_Witness ==
    /\ kbEv.kind = "confirm_delete"
    /\ kbEv.result.kind = "return"
    /\ kbNet[1] = KbCall("delete_kb_entry", kbEv.entry.id)
    /\ Cardinality(server) = 1
    /\ \A e \in server : e.id # kbEv.entry.id

\* C19: Create or Save Changes with a title that is empty after trimming is
\* refused in the dialog: no call is made, no APIError arises, the cache and
\* the backend are untouched, and the dialog stays open with the validation
\* error.
C19_BlankTitleIsRefused ==
    [][(kbEv'.kind \in {"create", "save_changes"} /\ strip(kbEv'.form.title) = <<>>) =>
          /\ kbNet' = <<>>
          /\ kbEv'.result = None
          /\ ~kbEv'.invalidated
          /\ cache' = cache
          /\ server' = server
          /\ kbView.dialog # None
          /\ kbView' = [kbView EXCEPT !.dialog.message = PyStr("Title is required.")]]_vars

C19_Witness ==
    /\ kbEv.kind = "create"
    /\ kbEv.form.title = Blank
    /\ kbNet = <<>>
    /\ kbView.dialog # None
    /\ kbView.dialog.kind = "add"
    /\ kbView.dialog.message = PyStr("Title is required.")
    /\ \E k \in DOMAIN cache : cache[k] # None

(***************************************************************************)
(* Failed calls at the call sites of both pages (specification SpecUI).    *)
(***************************************************************************)
ChatStep == ev' # ev
KbStep == kbEv' # kbEv \/ kbNet' # kbNet \/ kbView' # kbView
FailedFetch(calls, c, op, func) ==
    {i \in 1..Len(calls) : calls[i].op = op /\ c[CacheKey(func, calls[i].arg)] = None}
NamesFetchFailed ==
    /\ ChatStep
    /\ Fetches(net', "fetch_services") # {}
    /\ fetch_services(ev'.services).kind = "APIError"

\* A message of the Chat View that carries the client's message.
ChatShows(v, message) ==
    \/ v.banner = PyStr("API offline -- " \o message)
    \/ \E i \in 1..Len(v.cards) : v.cards[i].style = "error" /\ v.cards[i].text = message

\* What holds of every failed call but the Chat View's list-services call.
FailuresAreShown ==
    \* a run of the Chat View ends early only on an entry it cannot read
    /\ [][ChatStep => (view'.crashed => \E i \in 1..Len(history') : Unreadable(history'[i]))]_vars
    \* health check: a banner, and the chat input is there
    /\ [][(ChatStep /\ ~view'.crashed /\ check_health(ev'.health).kind = "APIError") =>
             /\ view'.banner = PyStr("API offline -- " \o check_health(ev'.health).message)
             /\ view'.chat_input]_vars
    \* ask: an error entry and its card
    /\ [][(ChatStep /\ ev'.kind = "ask" /\ ask_question(ev'.outcome).kind = "APIError") =>
             /\ ~view'.crashed
             /\ view'.chat_input
             /\ history'[Len(history')].error = PyStr(ask_question(ev'.outcome).message)
             /\ ChatShows(view', ask_question(ev'.outcome).message)]_vars
    \* Knowledge Base: create, update, delete
    /\ [][(KbStep /\ kbEv'.result # None /\ kbEv'.result.kind = "APIError") =>
             /\ kbView'.drawn
             /\ kbView'.dialog # None
             /\ kbView'.dialog.message = PyStr(kbEv'.result.message)]_vars
    \* Knowledge Base: list services, list entries (a failed call fills no slot)
    /\ [][(KbStep /\ FailedFetch(kbNet', cache', "fetch_services", "_cached_services") # {}) =>
             /\ kbView'.drawn
             /\ kbView'.services_error # None
             /\ kbView'.filter_options = <<AllServices>>
             /\ \/ Fetches(kbNet', "fetch_kb_entries") # {}
                \/ Fresh(cache'[CacheKey("_cached_entries", kbView'.selected_service)])]_vars
    /\ [][(KbStep /\ FailedFetch(kbNet', cache', "fetch_kb_entries", "_cached_entries") # {}) =>
             /\ kbView'.drawn
             /\ kbView'.entries_error # None
             /\ kbView'.entries = <<>>]_vars
    /\ [][KbStep => kbView'.drawn]_vars

\* C14: every failed client call is caught where it is made: the health check
\* becomes the sidebar's status with the chat input still there, a failed ask
\* becomes an error entry and its card, a failed create, update or delete a
\* message in the open dialog, a failed load of services or entries a message
\* on the Knowledge Base page, which draws the rest; the Chat View's failed
\* list-services call is replaced by the fallback names and the run goes on.
C14_FailuresAreCaught ==
    /\ FailuresAreShown
    /\ [][NamesFetchFailed =>
             /\ view'.names = SERVICE_DISPLAY
             /\ (view'.crashed => \E i \in 1..Len(history') : Unreadable(history'[i]))
             /\ (~view'.crashed => view'.chat_input /\ Len(view'.cards) = Len(history'))]_vars

\* C14 as stated: the Chat View's failed list-services call, too, becomes a
\* visible message.
C14_EveryFailureIsAVisibleMessage ==
    /\ FailuresAreShown
    /\ [][NamesFetchFailed =>
             ChatShows(view', fetch_services(ev'.services).message)]_vars

C14_Witness ==
    /\ ev.kind = "ask"
    /\ check_health(ev.health).kind = "APIError"
    /\ fetch_services(ev.services).kind = "APIError"
    /\ Fetches(net, "fetch_services") # {}
    /\ ~view.crashed
    /\ view.chat_input
    /\ view.names = SERVICE_DISPLAY
    /\ view.banner = PyStr("API offline -- " \o check_health(ev.health).message)
    /\ ~ChatShows(view, fetch_services(ev.services).message)

====
